---------------------------- MODULE Spec2Model ----------------------------
(***************************************************************************)
(* Model of the /api/livestream serverless function.                       *)
(*                                                                         *)
(*   src/unnamed/part_001   uploads-based revision with the late-start     *)
(*                          grace window ("grace" below)                   *)
(*   src/api/livestream.js  uploads-based revision without it ("api")      *)
(*   src/unnamed/part_000   search-based revision with the debug flag      *)
(*                          ("search")                                     *)
(*                                                                         *)
(* Timestamps.  A liveStreamingDetails time field is a string or missing.  *)
(* It is modelled by what the code can observe of it: whether it is truthy *)
(* (k # "absent") and what Date.parse makes of it (k = "ok": the finite    *)
(* number ms; k = "bad": NaN).  TLC integers are 32 bits wide, so the      *)
(* clock sits at 10^9 ms instead of 1.7 * 10^12 ms; the code only compares *)
(* and subtracts times, except for the literal 0 it substitutes for an     *)
(* unparseable actualEndTime and the truthiness test of upcomingStartMs,   *)
(* and both of those are kept as written.                                  *)
(***************************************************************************)
EXTENDS Integers, Sequences, FiniteSets

VARIABLES
    graceMinutes,   \* Number(process.env.YT_LATE_START_GRACE_MINUTES || "10")
    in_videos,      \* selector run: the argument of pickStateFromVideos
    in_now,         \* selector run: what Date.now() returns inside it
    fn,             \* selector run: "input", or the revision applied
    out,            \* selector run: the value returned
    revision,       \* the file deployed: "grace" (part_001) or "api" (api/livestream.js)
    envOk,          \* API_KEY && CHANNEL_ID
    cachedUploadsPlaylistId,    \* the module-level memo
    clock,          \* the wall clock, in ms
    pc,             \* where the request in flight is suspended
    served,         \* requests received by this process so far
    debug,          \* the request's query flag: String(req.query.debug || "") === "1"
    generatedAt,    \* the request's stamp taken on entry
    fetchedAt,      \* the request's youtubeFetchedAt
    ids,            \* the request's video ids from playlistItems
    calls,          \* the external calls the request has issued, in order
    failure,        \* which step of the request threw, "none" if none
    sent,           \* the responses the request has emitted, in order
    obs,            \* what the request read: both Date.now() values, the rule used
    source,         \* interleaved requests: the uploads id the channels lookup yields
    rpc,            \* interleaved requests: where each request is suspended
    rlookups,       \* interleaved requests: channels lookups each request has issued
    rgot            \* interleaved requests: what getUploadsPlaylistId returned to each

pickVars == <<in_videos, in_now, fn, out>>
reqVars == <<generatedAt, fetchedAt, ids, calls, failure, sent, obs>>
handlerVars == <<revision, envOk, cachedUploadsPlaylistId, clock, pc, served, debug, reqVars>>
raceVars == <<source, rpc, rlookups, rgot>>
vars == <<graceMinutes, pickVars, handlerVars, raceVars>>

-----------------------------------------------------------------------------
(* Bounds of the model *)

MaxVideos == 2
MaxIds == 1
MaxRequests == 2
MaxDrift == 2
MaxInFlight == 3

-----------------------------------------------------------------------------
(* Values *)

Null == <<>>
Some(x) == <<x>>

MINUTE_MS == 60 * 1000
HOUR_MS == 60 * MINUTE_MS
BaseNow == 1000 * 1000 * 1000

Absent == [k |-> "absent", ms |-> 0]
Bad == [k |-> "bad", ms |-> 0]
At(t) == [k |-> "ok", ms |-> t]

Max0(a, b) == IF a >= b THEN a ELSE b

GRACE_MS == Max0(0, graceMinutes) * 60 * 1000

\* JavaScript truthiness of a time field: undefined and "" are falsy.
Truthy(s) == s.k # "absent"

\* Date.parse(s || ""): a finite number for a parseable string, NaN otherwise.
DateParse(s) == [finite |-> s.k = "ok", v |-> IF s.k = "ok" THEN s.ms ELSE 0]

\* values of YT_LATE_START_GRACE_MINUTES: unset (10), zero, negative
GraceEnv == {10, 0, -3}

\* scheduledStartTime values around the selector's rules
PickSchedTimes ==
    {Absent, Bad} \cup
    {At(BaseNow + d) : d \in {-(10 * MINUTE_MS) - 1, -(10 * MINUTE_MS), 0, 1, 3 * HOUR_MS}}

\* actualEndTime values: missing, unparseable, the epoch itself, recent
PickEndTimes == {Absent, Bad, At(0), At(BaseNow - HOUR_MS)}

PickStartTimes == {Absent, At(BaseNow - 2 * HOUR_MS)}

\* a candidate; its id is a token unique in the list
VideoAt(i, s, a, e) ==
    [id |-> i, scheduledStartTime |-> s, actualStartTime |-> a, actualEndTime |-> e]

-----------------------------------------------------------------------------
(* Array helpers *)

\* arr.sort(cmp)[0] for cmp = (a, b) => key(a) - key(b), where key[p] is the
\* key of xs[p]: Array.prototype.sort is stable, so the head is the first
\* element, in order, with the least key; undefined (Null) for an empty array.
SortAscHead(xs, key) ==
    IF xs = <<>> THEN Null
    ELSE LET p == CHOOSE p \in 1..Len(xs) :
                    /\ \A q \in 1..Len(xs) : key[p] <= key[q]
                    /\ \A q \in 1..(p - 1) : key[q] # key[p]
         IN Some(xs[p])

\* the same for cmp = (a, b) => key(b) - key(a)
SortDescHead(xs, key) ==
    IF xs = <<>> THEN Null
    ELSE LET p == CHOOSE p \in 1..Len(xs) :
                    /\ \A q \in 1..Len(xs) : key[p] >= key[q]
                    /\ \A q \in 1..(p - 1) : key[q] # key[p]
         IN Some(xs[p])

\* arr.find(...): the first element of the matching ones, or undefined (Null)
FindFirst(hits) == IF hits = <<>> THEN Null ELSE Some(hits[1])

-----------------------------------------------------------------------------
(* pickStateFromVideos, grace-window revision (src/unnamed/part_001) *)

LiveResult(v) == [state |-> "live", videoId |-> Some(v.id), upcomingStartMs |-> Null]
\* mutation: the scheduled time left out of the upcoming result
UpcomingResult_NoStart(x) == [state |-> "upcoming", videoId |-> Some(x.id), upcomingStartMs |-> Null]
UpcomingResult(x) == [state |-> "upcoming", videoId |-> Some(x.id), upcomingStartMs |-> Some(x.t.v)]
ReplayResult(v) == [state |-> "replay", videoId |-> Some(v.id), upcomingStartMs |-> Null]
NoneResult == [state |-> "none", videoId |-> Null, upcomingStartMs |-> Null]

\* mutation: the actualEndTime test dropped from the live rule
IsLiveNow_StartOnly(v) == Truthy(v.actualStartTime)

\* 1) Live now: actualStartTime exists and actualEndTime does not
IsLiveNow(v) == Truthy(v.actualStartTime) /\ ~Truthy(v.actualEndTime)

liveNow(videos) == FindFirst(SelectSeq(videos, IsLiveNow))

ScheduledEntry(v) ==
    [id |-> v.id,
     t |-> DateParse(v.scheduledStartTime),
     hasActualStart |-> Truthy(v.actualStartTime),
     hasActualEnd |-> Truthy(v.actualEndTime)]

\* the candidates with a parseable scheduledStartTime
scheduled(videos) ==
    SelectSeq([i \in 1..Len(videos) |-> ScheduledEntry(videos[i])],
              LAMBDA x : x.t.finite)

\* the sort key t of each element
SchedKeys(xs) == [p \in 1..Len(xs) |-> xs[p].t.v]

\* mutation: the future candidates sorted latest first
upcomingFuture_Latest(videos, now) ==
    LET xs == SelectSeq(scheduled(videos), LAMBDA x : ~x.hasActualEnd /\ x.t.v > now)
    IN SortDescHead(xs, SchedKeys(xs))

\* 2) Soonest upcoming in the future
upcomingFuture(videos, now) ==
    LET xs == SelectSeq(scheduled(videos), LAMBDA x : ~x.hasActualEnd /\ x.t.v > now)
    IN SortAscHead(xs, SchedKeys(xs))

\* 2b) Late-start grace: scheduled time passed, within graceMs, not started, not ended
upcomingGrace(videos, now, graceMs) ==
    LET xs == SelectSeq(scheduled(videos),
                        LAMBDA x : /\ ~x.hasActualEnd
                                   /\ ~x.hasActualStart
                                   /\ x.t.v <= now
                                   /\ (now - x.t.v) <= graceMs)
    IN SortDescHead(xs, SchedKeys(xs))

\* mutation: upcomingFuture || upcomingGrace
upcomingPick_FutureFirst(videos, now, graceMs) ==
    IF upcomingFuture(videos, now) # Null
    THEN upcomingFuture(videos, now)
    ELSE upcomingGrace(videos, now, graceMs)

\* upcomingGrace || upcomingFuture
upcomingPick(videos, now, graceMs) ==
    IF upcomingGrace(videos, now, graceMs) # Null
    THEN upcomingGrace(videos, now, graceMs)
    ELSE upcomingFuture(videos, now)

\* Number.isFinite(t) ? t : 0 of Date.parse(actualEndTime)
EndKey(v) == IF DateParse(v.actualEndTime).finite THEN DateParse(v.actualEndTime).v ELSE 0

\* 3) Replay: most recent completed livestream (actualEndTime exists)
completed(videos) ==
    LET xs == SelectSeq(videos, LAMBDA v : Truthy(v.actualEndTime))
    IN SortDescHead(xs, [p \in 1..Len(xs) |-> EndKey(xs[p])])

pickStateFromVideos(videos, now, graceMs) ==
    IF liveNow(videos) # Null THEN LiveResult(liveNow(videos)[1])
    ELSE IF upcomingPick(videos, now, graceMs) # Null
         THEN UpcomingResult(upcomingPick(videos, now, graceMs)[1])
    ELSE IF completed(videos) # Null THEN ReplayResult(completed(videos)[1])
    ELSE NoneResult

-----------------------------------------------------------------------------
(* pickStateFromVideos of src/api/livestream.js *)

\* 2) Soonest upcoming: scheduledStartTime in the future
upcomingApi(videos, now) ==
    LET xs == SelectSeq([i \in 1..Len(videos) |->
                            [id |-> videos[i].id,
                             t |-> DateParse(videos[i].scheduledStartTime)]],
                        LAMBDA x : x.t.finite /\ x.t.v > now)
    IN SortAscHead(xs, SchedKeys(xs))

pickStateFromVideosApi(videos, now) ==
    IF liveNow(videos) # Null THEN LiveResult(liveNow(videos)[1])
    ELSE IF upcomingApi(videos, now) # Null
         THEN UpcomingResult(upcomingApi(videos, now)[1])
    ELSE IF completed(videos) # Null THEN ReplayResult(completed(videos)[1])
    ELSE NoneResult

-----------------------------------------------------------------------------
(* The request handler (module.exports) and the upload lister *)

UploadsId == "UU-uploads"

\* json(res, status, body, cacheSeconds): CORS headers, Cache-Control, one JSON body
json(status, body, cacheSeconds) ==
    [status |-> status, cors |-> TRUE, cache |-> Some(cacheSeconds), noStore |-> FALSE,
     body |-> Some(body)]

\* setCors(res); res.status(204).end()
Preflight == [status |-> 204, cors |-> TRUE, cache |-> Null, noStore |-> FALSE, body |-> Null]

\* { ...result, generatedAt, youtubeFetchedAt }; src/api/livestream.js sends the
\* result alone, which the two stamps being Null stands for; neither revision
\* ever sets a debugError key
Body(rev, result, gen, fetched) ==
    [error |-> FALSE, result |-> Some(result), debugError |-> Null,
     generatedAt |-> IF rev = "grace" THEN gen ELSE Null,
     youtubeFetchedAt |-> IF rev = "grace" THEN fetched ELSE Null]

\* the body of the "Missing env vars" answer
MissingEnvBody(rev, gen) ==
    [error |-> TRUE, result |-> IF rev = "grace" THEN Some(NoneResult) ELSE Null,
     debugError |-> Null,
     generatedAt |-> IF rev = "grace" THEN gen ELSE Null,
     youtubeFetchedAt |-> Null]

MissingEnvCacheSeconds == 60
EmptyUploadsCacheSeconds == 600
CatchCacheSeconds == 600

\* mutation: the catch block answers 500
CatchResponse_500(rev, gen) ==
    json(500, Body(rev, NoneResult, gen, Null), CatchCacheSeconds)

\* catch (e): fail closed
CatchResponse(rev, gen) ==
    json(200, Body(rev, NoneResult, gen, Null), CatchCacheSeconds)

\* mutation: the tiers compared with >=
upcomingCacheSeconds_Inclusive(diff) ==
    IF diff >= 2 * 60 * 60 * 1000 THEN 1800
    ELSE IF diff >= 30 * 60 * 1000 THEN 300
    ELSE 20

\* the tiers of an upcoming stream by time to start
upcomingCacheSeconds(diff) ==
    IF diff > 2 * 60 * 60 * 1000 THEN 1800
    ELSE IF diff > 30 * 60 * 1000 THEN 300
    ELSE 20

\* result.state === "upcoming" && result.upcomingStartMs: a number is truthy unless 0
IsUpcomingWithStart(result) ==
    /\ result.state = "upcoming"
    /\ result.upcomingStartMs # Null
    /\ result.upcomingStartMs[1] # 0

\* cacheSeconds of a computed result, grace-window revision; now2 is the
\* handler's own Date.now(), read after the selector's
cacheSecondsGrace(result, now2, graceMs) ==
    IF IsUpcomingWithStart(result)
    THEN LET diff == result.upcomingStartMs[1] - now2
             absLate == IF diff < 0 THEN -diff ELSE 0
         IN IF diff <= 0 /\ absLate <= graceMs THEN 5
            ELSE upcomingCacheSeconds(diff)
    ELSE IF result.state = "live" THEN 10
    ELSE IF result.state = "replay" THEN 600
    ELSE 600

\* cacheSeconds of a computed result, src/api/livestream.js
cacheSecondsApi(result, now2) ==
    IF IsUpcomingWithStart(result)
    THEN upcomingCacheSeconds(result.upcomingStartMs[1] - now2)
    ELSE IF result.state = "live" THEN 60
    ELSE IF result.state = "replay" THEN 600
    ELSE 600

cacheSecondsOf(rev, result, now2, graceMs) ==
    IF rev = "grace" THEN cacheSecondsGrace(result, now2, graceMs)
    ELSE cacheSecondsApi(result, now2)

pickOf(rev, videos, now, graceMs) ==
    IF rev = "grace" THEN pickStateFromVideos(videos, now, graceMs)
    ELSE pickStateFromVideosApi(videos, now)

NoObs == [pickNow |-> Null, cacheNow |-> Null, viaGrace |-> FALSE]

\* scheduledStartTime values around the cache tiers and the grace window
HandlerSchedTimes ==
    {Absent} \cup
    {At(BaseNow + d) : d \in {-(10 * MINUTE_MS), 0, 1,
                              30 * MINUTE_MS, 30 * MINUTE_MS + 1, 90 * MINUTE_MS,
                              2 * HOUR_MS, 2 * HOUR_MS + 1}}

HandlerEndTimes == {Absent, At(BaseNow - HOUR_MS)}

\* the requests of one process that may be in flight together
Reqs == 1..MaxInFlight

\* no interleaved requests
NoRace ==
    /\ source = UploadsId
    /\ rpc = [r \in Reqs |-> "idle"]
    /\ rlookups = [r \in Reqs |-> 0]
    /\ rgot = [r \in Reqs |-> Null]

\* a warm process that has served nothing yet
ProcessStart ==
    /\ cachedUploadsPlaylistId = Null
    /\ clock = BaseNow
    /\ pc = "idle"
    /\ served = 0
    /\ debug = FALSE
    /\ generatedAt = Null
    /\ fetchedAt = Null
    /\ ids = <<>>
    /\ calls = <<>>
    /\ failure = "none"
    /\ sent = <<>>
    /\ obs = NoObs

Init ==
    /\ graceMinutes \in GraceEnv
    /\ revision \in {"grace", "api"}
    /\ envOk \in BOOLEAN
    /\ in_videos = <<>>
    /\ in_now = BaseNow
    /\ fn = "input"
    /\ out = NoneResult
    /\ ProcessStart
    /\ NoRace

\* the handler up to its first await: preflight, configuration check, and
\* getUploadsPlaylistId's memo test inside listRecentUploadVideoIds
Receive ==
    /\ pc \in {"idle", "done"}
    /\ served < MaxRequests
    /\ served' = served + 1
    /\ fetchedAt' = Null
    /\ ids' = <<>>
    /\ failure' = "none"
    /\ obs' = NoObs
    /\ debug' \in BOOLEAN
    /\ \E method \in {"GET", "OPTIONS"} :
        \/ /\ method = "OPTIONS"
           /\ generatedAt' = Null
           /\ calls' = <<>>
           /\ sent' = <<Preflight>>
           /\ pc' = "done"
        \/ /\ method = "GET" /\ ~envOk
           /\ generatedAt' = Some(clock)
           /\ calls' = <<>>
           /\ sent' = <<json(500, MissingEnvBody(revision, Some(clock)), MissingEnvCacheSeconds)>>
           /\ pc' = "done"
        \/ /\ method = "GET" /\ envOk /\ cachedUploadsPlaylistId # Null
           /\ generatedAt' = Some(clock)
           /\ calls' = <<"playlistItems">>
           /\ sent' = <<>>
           /\ pc' = "playlistItems"
        \/ /\ method = "GET" /\ envOk /\ cachedUploadsPlaylistId = Null
           /\ generatedAt' = Some(clock)
           /\ calls' = <<"channels">>
           /\ sent' = <<>>
           /\ pc' = "channels"
    /\ UNCHANGED <<graceMinutes, pickVars, raceVars, revision, envOk, cachedUploadsPlaylistId, clock>>

\* the channels lookup settles: fetchJson throws (status not ok, or a body
\* JSON.parse rejects), or the body holds no uploads id, or it holds one
ChannelsReturn ==
    /\ pc = "channels"
    /\ \/ /\ failure' = "channels"
          /\ sent' = Append(sent, CatchResponse(revision, generatedAt))
          /\ pc' = "done"
          /\ UNCHANGED <<cachedUploadsPlaylistId, calls>>
       \/ /\ failure' = "uploads"
          /\ sent' = Append(sent, CatchResponse(revision, generatedAt))
          /\ pc' = "done"
          /\ UNCHANGED <<cachedUploadsPlaylistId, calls>>
       \/ /\ cachedUploadsPlaylistId' = Some(UploadsId)
          /\ calls' = Append(calls, "playlistItems")
          /\ pc' = "playlistItems"
          /\ UNCHANGED <<failure, sent>>
    /\ UNCHANGED <<graceMinutes, pickVars, raceVars, revision, envOk, clock, served,
                   debug, generatedAt, fetchedAt, ids, obs>>

\* the playlistItems lookup settles: fetchJson throws, or it lists video ids
PlaylistItemsReturn ==
    /\ pc = "playlistItems"
    /\ \/ /\ failure' = "playlistItems"
          /\ sent' = Append(sent, CatchResponse(revision, generatedAt))
          /\ pc' = "done"
          /\ UNCHANGED <<fetchedAt, ids, calls>>
       \/ /\ fetchedAt' = Some(clock)
          /\ ids' = <<>>
          /\ sent' = Append(sent, json(200, Body(revision, NoneResult, generatedAt, Some(clock)),
                                       EmptyUploadsCacheSeconds))
          /\ pc' = "done"
          /\ UNCHANGED <<failure, calls>>
       \/ /\ \E n \in 1..MaxIds : ids' = [i \in 1..n |-> i]
          /\ fetchedAt' = Some(clock)
          /\ calls' = Append(calls, "videos")
          /\ pc' = "videos"
          /\ UNCHANGED <<failure, sent>>
    /\ UNCHANGED <<graceMinutes, pickVars, raceVars, revision, envOk, cachedUploadsPlaylistId,
                   clock, served, debug, generatedAt, obs>>

\* the videos lookup settles: fetchJson throws, or it returns details for some
\* of the ids; the selector reads the clock, the handler reads it again `e` ms
\* later to derive the cache lifetime, and the response goes out
VideosReturn ==
    /\ pc = "videos"
    /\ \/ /\ failure' = "videos"
          /\ sent' = Append(sent, CatchResponse(revision, generatedAt))
          /\ UNCHANGED <<clock, obs>>
       \/ \E k \in 0..Len(ids) :
          \E f \in [1..k -> HandlerSchedTimes \X PickStartTimes \X HandlerEndTimes] :
          \E e \in 0..(BaseNow + MaxDrift - clock) :
            LET videos == [i \in 1..k |-> VideoAt(ids[i], f[i][1], f[i][2], f[i][3])]
                result == pickOf(revision, videos, clock, GRACE_MS)
                now2 == clock + e
            IN /\ sent' = Append(sent,
                            json(200, Body(revision, result, generatedAt, fetchedAt),
                                 cacheSecondsOf(revision, result, now2, GRACE_MS)))
               /\ obs' = [pickNow |-> Some(clock), cacheNow |-> Some(now2),
                          viaGrace |-> /\ revision = "grace"
                                       /\ liveNow(videos) = Null
                                       /\ upcomingGrace(videos, clock, GRACE_MS) # Null]
               /\ clock' = now2
               /\ UNCHANGED failure
    /\ pc' = "done"
    /\ UNCHANGED <<graceMinutes, pickVars, raceVars, revision, envOk, cachedUploadsPlaylistId,
                   served, debug, generatedAt, fetchedAt, ids, calls>>

\* time passes while the request is suspended or the process idles
Tick ==
    /\ clock < BaseNow + MaxDrift
    /\ clock' = clock + 1
    /\ UNCHANGED <<graceMinutes, pickVars, raceVars, revision, envOk, cachedUploadsPlaylistId,
                   pc, served, debug, reqVars>>

Next == Receive \/ ChannelsReturn \/ PlaylistItemsReturn \/ VideosReturn \/ Tick

Spec == Init /\ [][Next]_vars

-----------------------------------------------------------------------------
(* getUploadsPlaylistId under requests of one process interleaved at their awaits *)

\* uploads ids a channel may have; one run's source answers with one of them
PlaylistIds == {UploadsId, "UU-other"}

\* if (cachedUploadsPlaylistId) return cachedUploadsPlaylistId
MemoHit(memo) == memo # Null

\* cachedUploadsPlaylistId = uploads
MemoOnSuccess(memo, uploads) == Some(uploads)

\* mutation: a failed lookup clears the memo
MemoOnFailure_Reset(memo) == Null

\* fetchJson throws, or `if (!uploads) throw`: the assignment is never reached
MemoOnFailure(memo) == memo

InitRace ==
    /\ graceMinutes \in GraceEnv
    /\ revision = "grace"
    /\ envOk = TRUE
    /\ in_videos = <<>>
    /\ in_now = BaseNow
    /\ fn = "input"
    /\ out = NoneResult
    /\ ProcessStart
    /\ source \in PlaylistIds
    /\ rpc = [r \in Reqs |-> "idle"]
    /\ rlookups = [r \in Reqs |-> 0]
    /\ rgot = [r \in Reqs |-> Null]

\* request r runs from the handler's entry into getUploadsPlaylistId: a memo
\* hit returns at once and the playlistItems lookup goes out, a miss sends the
\* channels lookup and suspends
RaceCall(r) ==
    /\ rpc[r] = "idle"
    /\ \/ /\ MemoHit(cachedUploadsPlaylistId)
          /\ rgot' = [rgot EXCEPT ![r] = cachedUploadsPlaylistId]
          /\ rpc' = [rpc EXCEPT ![r] = "playlistItems"]
          /\ UNCHANGED rlookups
       \/ /\ ~MemoHit(cachedUploadsPlaylistId)
          /\ rlookups' = [rlookups EXCEPT ![r] = @ + 1]
          /\ rpc' = [rpc EXCEPT ![r] = "channels"]
          /\ UNCHANGED rgot
    /\ UNCHANGED <<graceMinutes, pickVars, handlerVars, source>>

\* r's channels lookup settles: it throws or holds no uploads id (the request
\* ends in the catch block), or it holds the source's id, which is memoized
RaceChannelsReturn(r) ==
    /\ rpc[r] = "channels"
    /\ \/ /\ cachedUploadsPlaylistId' = MemoOnFailure(cachedUploadsPlaylistId)
          /\ rpc' = [rpc EXCEPT ![r] = "failed"]
          /\ UNCHANGED rgot
       \/ /\ cachedUploadsPlaylistId' = MemoOnSuccess(cachedUploadsPlaylistId, source)
          /\ rgot' = [rgot EXCEPT ![r] = Some(source)]
          /\ rpc' = [rpc EXCEPT ![r] = "playlistItems"]
    /\ UNCHANGED <<graceMinutes, pickVars, revision, envOk, clock, pc, served, debug,
                   reqVars, source, rlookups>>

\* r's playlistItems lookup settles: failure or an empty list ends the request,
\* otherwise the videos lookup goes out
RacePlaylistItemsReturn(r) ==
    /\ rpc[r] = "playlistItems"
    /\ \/ rpc' = [rpc EXCEPT ![r] = "done"]
       \/ rpc' = [rpc EXCEPT ![r] = "videos"]
    /\ UNCHANGED <<graceMinutes, pickVars, handlerVars, source, rlookups, rgot>>

\* r's videos lookup settles and the response goes out
RaceVideosReturn(r) ==
    /\ rpc[r] = "videos"
    /\ rpc' = [rpc EXCEPT ![r] = "done"]
    /\ UNCHANGED <<graceMinutes, pickVars, handlerVars, source, rlookups, rgot>>

NextRace ==
    \E r \in Reqs :
        \/ RaceCall(r)
        \/ RaceChannelsReturn(r)
        \/ RacePlaylistItemsReturn(r)
        \/ RaceVideosReturn(r)

SpecRace == InitRace /\ [][NextRace]_vars

-----------------------------------------------------------------------------
(* The search-based handler with the debug flag (src/unnamed/part_000) *)

\* what this handler never touches
searchFixed ==
    <<graceMinutes, pickVars, raceVars, revision, envOk, cachedUploadsPlaylistId,
      generatedAt, fetchedAt>>

\* .filter(x => x.t && x.t > now).sort((a, b) => a.t - b.t)[0]: NaN and 0 are falsy
soonestSearch(videos, now) ==
    LET xs == SelectSeq([i \in 1..Len(videos) |->
                            [id |-> videos[i].id,
                             t |-> DateParse(videos[i].scheduledStartTime)]],
                        LAMBDA x : x.t.finite /\ x.t.v # 0 /\ x.t.v > now)
    IN SortAscHead(xs, SchedKeys(xs))

searchUpcomingCacheSeconds(diff) ==
    IF diff > 2 * 60 * 60 * 1000 THEN 1800
    ELSE IF diff > 30 * 60 * 1000 THEN 300
    ELSE 30

\* catch (e): with the debug flag, no-store and the error message in the body;
\* without it, the default body cached like a computed none
SearchCatchResponse(dbg, message) ==
    IF dbg
    THEN [status |-> 200, cors |-> TRUE, cache |-> Null, noStore |-> TRUE,
          body |-> Some([error |-> FALSE, result |-> Some(NoneResult),
                         debugError |-> Some(message),
                         generatedAt |-> Null, youtubeFetchedAt |-> Null])]
    ELSE json(200, Body("search", NoneResult, Null, Null), 600)

InitSearch ==
    /\ graceMinutes = 10
    /\ revision = "search"
    /\ envOk \in BOOLEAN
    /\ in_videos = <<>>
    /\ in_now = BaseNow
    /\ fn = "input"
    /\ out = NoneResult
    /\ ProcessStart
    /\ NoRace

\* the handler up to its first await: preflight, the debug flag, the
\* configuration check, and the live search going out
SearchReceive ==
    /\ pc \in {"idle", "done"}
    /\ served < MaxRequests
    /\ served' = served + 1
    /\ ids' = <<>>
    /\ failure' = "none"
    /\ obs' = NoObs
    /\ debug' \in BOOLEAN
    /\ \E method \in {"GET", "OPTIONS"} :
        \/ /\ method = "OPTIONS"
           /\ calls' = <<>>
           /\ sent' = <<Preflight>>
           /\ pc' = "done"
        \/ /\ method = "GET" /\ ~envOk
           /\ calls' = <<>>
           /\ sent' = <<json(500, MissingEnvBody("search", Null), 60)>>
           /\ pc' = "done"
        \/ /\ method = "GET" /\ envOk
           /\ calls' = <<"search:live">>
           /\ sent' = <<>>
           /\ pc' = "searchLive"
    /\ UNCHANGED <<searchFixed, clock>>

\* 1) Live now: the search throws, or lists a live video, or lists none and
\* the upcoming search goes out
SearchLiveReturn ==
    /\ pc = "searchLive"
    /\ \/ /\ failure' = "search:live"
          /\ sent' = Append(sent, SearchCatchResponse(debug, "search:live"))
          /\ pc' = "done"
          /\ UNCHANGED calls
       \/ /\ sent' = Append(sent, json(200, Body("search", LiveResult([id |-> 1]), Null, Null), 30))
          /\ pc' = "done"
          /\ UNCHANGED <<failure, calls>>
       \/ /\ calls' = Append(calls, "search:upcoming")
          /\ pc' = "searchUpcoming"
          /\ UNCHANGED <<failure, sent>>
    /\ UNCHANGED <<searchFixed, clock, served, debug, ids, obs>>

\* pickSoonestUpcoming: the upcoming search throws, or lists no ids (null, and
\* the completed search goes out), or lists ids and the videos lookup goes out
SearchUpcomingReturn ==
    /\ pc = "searchUpcoming"
    /\ \/ /\ failure' = "search:upcoming"
          /\ sent' = Append(sent, SearchCatchResponse(debug, "search:upcoming"))
          /\ pc' = "done"
          /\ UNCHANGED <<calls, ids>>
       \/ /\ ids' = <<>>
          /\ calls' = Append(calls, "search:completed")
          /\ pc' = "searchCompleted"
          /\ UNCHANGED <<failure, sent>>
       \/ /\ \E n \in 1..MaxIds : ids' = [i \in 1..n |-> i]
          /\ calls' = Append(calls, "videos")
          /\ pc' = "searchVideos"
          /\ UNCHANGED <<failure, sent>>
    /\ UNCHANGED <<searchFixed, clock, served, debug, obs>>

\* the videos lookup of pickSoonestUpcoming settles: it throws, or the soonest
\* future video is answered as upcoming (the handler reads the clock again `e`
\* ms after pickSoonestUpcoming did), or there is none and the completed
\* search goes out
SearchVideosReturn ==
    /\ pc = "searchVideos"
    /\ \/ /\ failure' = "videos"
          /\ sent' = Append(sent, SearchCatchResponse(debug, "videos"))
          /\ pc' = "done"
          /\ UNCHANGED <<calls, clock, obs>>
       \/ \E k \in 0..Len(ids) :
          \E f \in [1..k -> HandlerSchedTimes] :
          \E e \in 0..(BaseNow + MaxDrift - clock) :
            LET videos == [i \in 1..k |-> VideoAt(ids[i], f[i], Absent, Absent)]
                soonest == soonestSearch(videos, clock)
                now2 == clock + e
            IN IF soonest # Null
               THEN /\ sent' = Append(sent,
                                 json(200, Body("search", UpcomingResult(soonest[1]), Null, Null),
                                      searchUpcomingCacheSeconds(soonest[1].t.v - now2)))
                    /\ obs' = [pickNow |-> Some(clock), cacheNow |-> Some(now2),
                               viaGrace |-> FALSE]
                    /\ clock' = now2
                    /\ pc' = "done"
                    /\ UNCHANGED <<failure, calls>>
               ELSE /\ calls' = Append(calls, "search:completed")
                    /\ pc' = "searchCompleted"
                    /\ UNCHANGED <<failure, sent, clock, obs>>
    /\ UNCHANGED <<searchFixed, served, debug, ids>>

\* 3) Replay: the completed search throws, or lists a video, or lists none
SearchCompletedReturn ==
    /\ pc = "searchCompleted"
    /\ \/ /\ failure' = "search:completed"
          /\ sent' = Append(sent, SearchCatchResponse(debug, "search:completed"))
       \/ /\ sent' = Append(sent, json(200, Body("search", ReplayResult([id |-> 1]), Null, Null), 600))
          /\ UNCHANGED failure
       \/ /\ sent' = Append(sent, json(200, Body("search", NoneResult, Null, Null), 600))
          /\ UNCHANGED failure
    /\ pc' = "done"
    /\ UNCHANGED <<searchFixed, clock, served, debug, ids, calls, obs>>

NextSearch ==
    \/ SearchReceive
    \/ SearchLiveReturn
    \/ SearchUpcomingReturn
    \/ SearchVideosReturn
    \/ SearchCompletedReturn
    \/ Tick

SpecSearch == InitSearch /\ [][NextSearch]_vars

-----------------------------------------------------------------------------
(* The selector applied to every bounded candidate list *)

InitPick ==
    /\ graceMinutes \in GraceEnv
    /\ \E n \in 0..MaxVideos :
         \E f \in [1..n -> PickSchedTimes \X PickStartTimes \X PickEndTimes] :
            in_videos = [i \in 1..n |-> VideoAt(i, f[i][1], f[i][2], f[i][3])]
    /\ in_now = BaseNow
    /\ fn = "input"
    /\ out = NoneResult
    /\ revision = "grace"
    /\ envOk = TRUE
    /\ ProcessStart
    /\ NoRace

PickGrace ==
    /\ fn = "input"
    /\ fn' = "grace"
    /\ out' = pickStateFromVideos(in_videos, in_now, GRACE_MS)
    /\ UNCHANGED <<graceMinutes, in_videos, in_now, handlerVars, raceVars>>

PickApi ==
    /\ fn = "input"
    /\ fn' = "api"
    /\ out' = pickStateFromVideosApi(in_videos, in_now)
    /\ UNCHANGED <<graceMinutes, in_videos, in_now, handlerVars, raceVars>>

NextPick == PickGrace \/ PickApi

SpecPick == InitPick /\ [][NextPick]_vars

-----------------------------------------------------------------------------
(* The selector's rules as the specification words them, by candidate *)

Cands == 1..Len(in_videos)

SpecLive(i) ==
    in_videos[i].actualStartTime.k # "absent" /\ in_videos[i].actualEndTime.k = "absent"

SpecGrace(i) ==
    /\ in_videos[i].actualEndTime.k = "absent"
    /\ in_videos[i].actualStartTime.k = "absent"
    /\ in_videos[i].scheduledStartTime.k = "ok"
    /\ in_videos[i].scheduledStartTime.ms <= in_now
    /\ in_now - in_videos[i].scheduledStartTime.ms <= GRACE_MS

SpecFuture(i) ==
    /\ in_videos[i].actualEndTime.k = "absent"
    /\ in_videos[i].scheduledStartTime.k = "ok"
    /\ in_videos[i].scheduledStartTime.ms > in_now

SpecEnded(i) == in_videos[i].actualEndTime.k = "ok"

SchedMs(i) == in_videos[i].scheduledStartTime.ms
EndMs(i) == in_videos[i].actualEndTime.ms

\* C1: grace-window selector: when some candidate has actualStartTime present and
\* actualEndTime absent, the result is live with the id of the first such
\* candidate in input order and no upcomingStartMs, whatever the scheduled times.
C1_LiveFirst ==
    (fn = "grace" /\ \E i \in Cands : SpecLive(i)) =>
        \E i \in Cands :
            /\ SpecLive(i)
            /\ \A j \in 1..(i - 1) : ~SpecLive(j)
            /\ out = [state |-> "live", videoId |-> Some(in_videos[i].id),
                      upcomingStartMs |-> Null]

\* a live candidate placed after a candidate scheduled in the future
C1_Witness ==
    /\ fn = "grace"
    /\ Len(in_videos) = 2
    /\ SpecFuture(1) /\ ~SpecLive(1)
    /\ SpecLive(2) /\ in_videos[2].scheduledStartTime.k = "ok"
    /\ out.state = "live" /\ out.videoId = Some(in_videos[2].id)

\* C2: grace-window selector: with no live candidate and some candidate within the
\* grace window, the result is upcoming with the id and scheduled time of the
\* grace candidate with the largest scheduled time, also when another candidate
\* is scheduled in the future.
C2_GraceOutranksFuture ==
    (fn = "grace" /\ (\A i \in Cands : ~SpecLive(i)) /\ (\E i \in Cands : SpecGrace(i))) =>
        \E i \in Cands :
            /\ SpecGrace(i)
            /\ \A j \in Cands : SpecGrace(j) => SchedMs(j) <= SchedMs(i)
            /\ out = [state |-> "upcoming", videoId |-> Some(in_videos[i].id),
                      upcomingStartMs |-> Some(SchedMs(i))]

\* a grace candidate listed after a candidate scheduled in the future
C2_Witness ==
    /\ fn = "grace"
    /\ Len(in_videos) = 2
    /\ SpecFuture(1)
    /\ SpecGrace(2) /\ SchedMs(2) < in_now
    /\ out.state = "upcoming" /\ out.videoId = Some(in_videos[2].id)

\* C3: grace-window selector: with no live candidate and no grace candidate, and
\* some candidate not ended whose parseable scheduled time is strictly after now,
\* the result is upcoming with the id and time of the one with the smallest such
\* time; an unparseable scheduled time or one equal to now is not eligible.
C3_SoonestFuture ==
    (/\ fn = "grace"
     /\ \A i \in Cands : ~SpecLive(i) /\ ~SpecGrace(i)
     /\ \E i \in Cands : SpecFuture(i)) =>
        \E i \in Cands :
            /\ SpecFuture(i)
            /\ in_videos[i].scheduledStartTime.k = "ok" /\ SchedMs(i) # in_now
            /\ \A j \in Cands : SpecFuture(j) => SchedMs(i) <= SchedMs(j)
            /\ out = [state |-> "upcoming", videoId |-> Some(in_videos[i].id),
                      upcomingStartMs |-> Some(SchedMs(i))]

\* the later of two future candidates comes first in the list
C3_Witness ==
    /\ fn = "grace"
    /\ Len(in_videos) = 2
    /\ SpecFuture(1) /\ SpecFuture(2) /\ SchedMs(2) < SchedMs(1)
    /\ out.state = "upcoming" /\ out.videoId = Some(in_videos[2].id)

\* C4: for both uploads-based revisions, the selector never returns live or
\* upcoming with the id of a candidate whose actualEndTime is set.
C4_EndedNeverLiveOrUpcoming ==
    (fn \in {"grace", "api"} /\ out.state \in {"live", "upcoming"}) =>
        \A i \in Cands :
            out.videoId = Some(in_videos[i].id) => in_videos[i].actualEndTime.k = "absent"

\* C4, the grace-window revision alone
C4_EndedNeverLiveOrUpcomingGrace ==
    (fn = "grace" /\ out.state \in {"live", "upcoming"}) =>
        \A i \in Cands :
            out.videoId = Some(in_videos[i].id) => in_videos[i].actualEndTime.k = "absent"

\* C5: grace-window selector: when no candidate matches the live, future or grace
\* rule and some candidate has a parseable actualEndTime, the result is replay
\* with the id of the candidate with the largest parseable actualEndTime, never
\* a candidate whose actualEndTime is unparseable.
C5_ReplayMostRecentParseable ==
    (/\ fn = "grace"
     /\ \A i \in Cands : ~SpecLive(i) /\ ~SpecGrace(i) /\ ~SpecFuture(i)
     /\ \E i \in Cands : SpecEnded(i)) =>
        \E i \in Cands :
            /\ SpecEnded(i)
            /\ \A j \in Cands : SpecEnded(j) => EndMs(j) <= EndMs(i)
            /\ out = [state |-> "replay", videoId |-> Some(in_videos[i].id),
                      upcomingStartMs |-> Null]

\* C5 for end times after the Unix epoch
C5_ReplayMostRecentAfterEpoch ==
    (/\ fn = "grace"
     /\ \A i \in Cands : ~SpecLive(i) /\ ~SpecGrace(i) /\ ~SpecFuture(i)
     /\ \E i \in Cands : SpecEnded(i) /\ EndMs(i) > 0) =>
        \E i \in Cands :
            /\ SpecEnded(i)
            /\ \A j \in Cands : SpecEnded(j) => EndMs(j) <= EndMs(i)
            /\ out = [state |-> "replay", videoId |-> Some(in_videos[i].id),
                      upcomingStartMs |-> Null]

\* C6: every result of the grace-window selector has a state among live, upcoming,
\* replay, none; upcomingStartMs is set exactly when the state is upcoming and
\* videoId is null exactly when the state is none; the empty list gives none.
C6_ResultShape ==
    fn = "grace" =>
        /\ out.state \in {"live", "upcoming", "replay", "none"}
        /\ (out.upcomingStartMs # Null) <=> (out.state = "upcoming")
        /\ (out.videoId = Null) <=> (out.state = "none")
        /\ in_videos = <<>> => out = [state |-> "none", videoId |-> Null,
                                      upcomingStartMs |-> Null]

\* an upcoming result next to an ended candidate
C6_Witness ==
    /\ fn = "grace"
    /\ Len(in_videos) = 2
    /\ SpecEnded(1)
    /\ out.state = "upcoming"
    /\ out.upcomingStartMs = Some(SchedMs(2))
    /\ out.videoId # Null

-----------------------------------------------------------------------------
(* The handler's responses *)

TWO_HOURS == 2 * 60 * 60 * 1000
THIRTY_MINUTES == 30 * 60 * 1000

Answered == pc = "done" /\ Len(sent) >= 1
LastSent == sent[Len(sent)]
SentResult == LastSent.body[1].result[1]
SentUpcoming ==
    /\ Answered
    /\ LastSent.body # Null
    /\ LastSent.body[1].result # Null
    /\ SentResult.state = "upcoming"

\* C7: grace-window handler, GET with key and channel configured: when the
\* channels, playlistItems or videos lookup fails, or the channels lookup yields
\* no uploads id, the request issues no further external call and repeats none,
\* and ends with exactly one response: 200 with state none, videoId null and
\* upcomingStartMs null.
C7_FailureAnswersOnce ==
    (revision = "grace" /\ failure # "none") =>
        /\ pc = "done"
        /\ Len(sent) = 1
        /\ sent[1].status = 200
        /\ sent[1].body # Null
        /\ sent[1].body[1].result =
              Some([state |-> "none", videoId |-> Null, upcomingStartMs |-> Null])
        /\ calls # <<>>
        /\ calls[Len(calls)] = (IF failure = "uploads" THEN "channels" ELSE failure)
        /\ \A i, j \in 1..Len(calls) : i # j => calls[i] # calls[j]

\* the third lookup in a row is the one that fails
C7_Witness ==
    /\ revision = "grace"
    /\ envOk
    /\ failure = "videos"
    /\ calls = <<"channels", "playlistItems", "videos">>
    /\ pc = "done"
    /\ Len(sent) = 1

C9_GracePickCachedFiveSeconds ==
    (revision = "grace" /\ Answered /\ obs.viaGrace) => LastSent.cache = Some(5)

\* C10: the response the catch block sends has a max-age strictly shorter than
\* the one the handler gives a computed replay or none result.
C10_ErrorCachedShorterThanNone ==
    (Answered /\ failure # "none") =>
        /\ LastSent.cache[1] < cacheSecondsOf(revision, NoneResult, clock, GRACE_MS)
        /\ LastSent.cache[1] < cacheSecondsOf(revision, ReplayResult([id |-> 1]), clock, GRACE_MS)

-----------------------------------------------------------------------------
(* The memo under interleaving *)

\* a step in which request r's channels lookup fails or yields no id
LookupFails(r) == rpc[r] = "channels" /\ rpc'[r] = "failed"

\* a step in which request r enters getUploadsPlaylistId
Enters(r) == rpc[r] = "idle" /\ rpc'[r] # "idle"

\* C11: with the source answering every channels lookup with the same id: once
\* written, the memo never changes and never empties; a request entering
\* getUploadsPlaylistId after the write issues no channels lookup; a lookup that
\* fails or yields no id does not touch the memo (an empty memo stays empty);
\* overlapping requests cost at most one channels lookup each and all get the
\* same playlist id.
C11_MemoWriteOnceSameId ==
    /\ [][/\ cachedUploadsPlaylistId # Null =>
                cachedUploadsPlaylistId' = cachedUploadsPlaylistId
          /\ \A r \in Reqs :
                /\ (Enters(r) /\ cachedUploadsPlaylistId # Null) =>
                        /\ rlookups'[r] = rlookups[r]
                        /\ rpc'[r] # "channels"
                        /\ rgot'[r] = cachedUploadsPlaylistId
                /\ LookupFails(r) =>
                        /\ cachedUploadsPlaylistId' = cachedUploadsPlaylistId
                        /\ cachedUploadsPlaylistId = Null => cachedUploadsPlaylistId' = Null]_vars
    /\ [](/\ cachedUploadsPlaylistId \in {Null, Some(source)}
          /\ \A r \in Reqs :
                /\ rlookups[r] <= 1
                /\ rgot[r] # Null => rgot[r] = Some(source)
          /\ \A r, q \in Reqs : (rgot[r] # Null /\ rgot[q] # Null) => rgot[r] = rgot[q])

\* two requests overlapped before the first write and each looked the id up,
\* and one that entered after the write looked nothing up
C11_Witness ==
    /\ cachedUploadsPlaylistId # Null
    /\ \E a, b, c \in Reqs :
        /\ a # b
        /\ rlookups[a] = 1 /\ rlookups[b] = 1
        /\ rgot[a] # Null /\ rgot[b] = rgot[a]
        /\ rlookups[c] = 0 /\ rgot[c] = cachedUploadsPlaylistId

-----------------------------------------------------------------------------
(* The debug flag *)

\* C12: when state computation fails and the request carries the debug flag, the
\* body holds a debugError next to state none, videoId null and upcomingStartMs
\* null and the response is Cache-Control: no-store with no s-maxage; without
\* the flag the same failure gives the default body, no debugError, and a
\* cacheable Cache-Control.
C12_DebugSurfacesFailure ==
    (Answered /\ failure # "none") =>
        /\ LastSent.body # Null
        /\ LastSent.body[1].result =
              Some([state |-> "none", videoId |-> Null, upcomingStartMs |-> Null])
        /\ debug => /\ LastSent.body[1].debugError # Null
                    /\ LastSent.noStore
                    /\ LastSent.cache = Null
        /\ ~debug => /\ LastSent.body[1].debugError = Null
                     /\ ~LastSent.noStore
                     /\ LastSent.cache # Null

\* a failure answered with the flag set
C12_WitnessDebug ==
    /\ Answered /\ failure # "none" /\ debug
    /\ LastSent.noStore
    /\ LastSent.body[1].debugError = Some(failure)

\* a failure answered without the flag
C12_WitnessNoDebug ==
    /\ Answered /\ failure # "none" /\ ~debug
    /\ LastSent.cache = Some(600)

=============================================================================
